---- MODULE Spec2Model ----
(***************************************************************************)
(* Loan origination and servicing (dashboard app): the LoanApplication     *)
(* save hook with its amortization and payment schedule, the loan_apply,   *)
(* loan_withdraw and make_payment request handlers, the two mobile-money   *)
(* forms, and the admin change form of LoanApplication.                    *)
(*                                                                         *)
(* Money is counted in cents (DecimalField decimal_places=2), dates in     *)
(* days.  A nullable field holds <<>> (null) or <<v>>.  A request handler   *)
(* is one action, the database writes of one request taking effect         *)
(* together; loan_withdraw and make_payment are also modelled save by      *)
(* save, `inflight` holding the requests that are under way.  `last`       *)
(* describes the request that was handled last and `body` holds what it    *)
(* submitted, where a specification records it.                            *)
(***************************************************************************)
EXTENDS Integers, Sequences, FiniteSets, Bags, TLC

VARIABLES profiles, apps, documents, payments, withdrawals, notifications,
          today, last, body, inflight

vars == <<profiles, apps, documents, payments, withdrawals, notifications,
          today, last, body, inflight>>

(***************************************************************************)
(* Bounds of the model.                                                    *)
(***************************************************************************)
MaxApps == 1
MaxTerm == 2
MaxDay == 1
MaxProfileUpdates == 0
MaxPayments == 1
MaxRepaymentTerm == 12
MaxDocuments == 1
MaxProcs == 2

(***************************************************************************)
(* Program constants.                                                      *)
(***************************************************************************)
MinLoanAmount == 100000
MaxTermMonths == 360
MinPaymentAmount == 10000
MpesaLength == 12
MpesaMaxLength == 15
ScheduleSpacingDays == 30
MaxDocumentSize == 5242880

Users == {"alice", "bob"}
Procs == 1 .. MaxProcs

Null == <<>>
Some(v) == <<v>>
Truthy(opt) == opt # Null /\ opt[1] # 0

APPLICATION_STATUS == {"pending", "approved", "rejected", "under_review", "more_info"}
PAYMENT_METHODS == {"mpesa", "bank", "cash"}

\* The loan products in the catalog: interest_rate in hundredths of a percent.
LoanType ==
    [id \in {1, 2} |->
        IF id = 1 THEN [interest_rate |-> 0, is_active |-> TRUE]
                  ELSE [interest_rate |-> 1200, is_active |-> TRUE]]

(***************************************************************************)
(* Inputs of the requests.                                                 *)
(***************************************************************************)
\* A request is a GET, or a POST carrying the submitted fields.
Get == [method |-> "GET"]
NoBody == [method |-> "none"]
LoanTypeIds == {1, 2, 3}
ApplyAmounts == {50000, 100000}
AdminAmounts == {100000, 120000}
ApplyTerms == 0 .. MaxTerm
AdminTerms == 1 .. MaxTerm
AdminStatuses == {"pending", "approved", "rejected"}
AppIds == 1 .. MaxApps
PostedAmounts == {100000, 999900}
RepaymentAmounts == {100000, 100100, 120000, 250000, 1000000}
RepaymentTerms == 1 .. MaxRepaymentTerm

ValidNumber == <<"2", "5", "4", "7", "1", "2", "3", "4", "5", "6", "7", "8">>
LetterNumber == <<"2", "5", "4", "7", "a", "b", "c", "d", "e", "f", "g", "h">>
ShortNumber == <<"2", "5", "4", "7", "1", "2", "3", "4", "5", "6", "7">>
OtherPrefixNumber == <<"2", "5", "4", "8", "1", "2", "3", "4", "5", "6", "7", "8">>
EmptyNumber == <<>>
MpesaInputs == {ValidNumber, LetterNumber, ShortNumber, OtherPrefixNumber, EmptyNumber}
PaymentMethodInputs == {"mpesa", "bank"}
PaymentAmounts == {9999, 10000, 100000, 100001}
DocumentTypeInputs == {"id_front", ""}
DocumentFileInputs ==
    {[size |-> MaxDocumentSize, ext |-> ".pdf"],
     [size |-> MaxDocumentSize + 1, ext |-> ".pdf"],
     [size |-> MaxDocumentSize, ext |-> ".exe"]}

ApplyRequests ==
    {Get} \cup {[method |-> "POST", amount |-> a, term_months |-> n] :
                    a \in ApplyAmounts, n \in ApplyTerms}
WithdrawRequests ==
    {Get} \cup {[method |-> "POST", mpesa_number |-> n, amount |-> a] :
                    n \in MpesaInputs, a \in PostedAmounts}
DetailRequests ==
    {Get, [method |-> "POST", upload_document |-> FALSE]}
        \cup {[method |-> "POST", upload_document |-> TRUE,
                document_type |-> t, document_file |-> f] :
                    t \in DocumentTypeInputs, f \in DocumentFileInputs}
PaymentRequests ==
    {Get} \cup {[method |-> "POST", payment_method |-> pm, mpesa_number |-> n, amount |-> a] :
                    pm \in PaymentMethodInputs, n \in MpesaInputs, a \in PaymentAmounts}

(***************************************************************************)
(* Arithmetic of calculate_repayment, exact on rationals.  (1 + r)^term    *)
(* outgrows a machine word, so the numerator and the denominator of the    *)
(* installment are natural numbers held as sequences of limbs, the least   *)
(* significant first, zero being the empty sequence.                       *)
(***************************************************************************)
RECURSIVE GCD(_, _)
GCD(a, b) == IF b = 0 THEN a ELSE GCD(b, a % b)

Limb == 1000

RECURSIVE BigOf(_)
BigOf(n) == IF n = 0 THEN <<>> ELSE <<n % Limb>> \o BigOf(n \div Limb)

\* x + y + carry
RECURSIVE BigAddCarry(_, _, _)
BigAddCarry(x, y, carry) ==
    IF x = <<>> /\ y = <<>> THEN BigOf(carry)
    ELSE LET d == (IF x = <<>> THEN 0 ELSE Head(x))
                  + (IF y = <<>> THEN 0 ELSE Head(y)) + carry
         IN  <<d % Limb>> \o BigAddCarry(IF x = <<>> THEN <<>> ELSE Tail(x),
                                         IF y = <<>> THEN <<>> ELSE Tail(y),
                                         d \div Limb)

BigAdd(x, y) == BigAddCarry(x, y, 0)

\* x * k + carry, for a small k
RECURSIVE BigMulCarry(_, _, _)
BigMulCarry(x, k, carry) ==
    IF x = <<>> THEN BigOf(carry)
    ELSE LET d == Head(x) * k + carry
         IN  <<d % Limb>> \o BigMulCarry(Tail(x), k, d \div Limb)

BigMul(x, k) == IF k = 0 THEN <<>> ELSE BigMulCarry(x, k, 0)

RECURSIVE BigPow(_, _)
BigPow(k, n) == IF n = 0 THEN <<1>> ELSE BigMul(BigPow(k, n - 1), k)

\* x < y, comparing from the most significant limb
RECURSIVE BigLess(_, _)
BigLess(x, y) ==
    IF Len(x) # Len(y) THEN Len(x) < Len(y)
    ELSE IF x = <<>> THEN FALSE
    ELSE IF x[Len(x)] # y[Len(y)] THEN x[Len(x)] < y[Len(y)]
    ELSE BigLess(SubSeq(x, 1, Len(x) - 1), SubSeq(y, 1, Len(y) - 1))

RECURSIVE BigTrim(_)
BigTrim(x) ==
    IF x # <<>> /\ x[Len(x)] = 0 THEN BigTrim(SubSeq(x, 1, Len(x) - 1)) ELSE x

\* x - y - borrow, for x >= y + borrow, before the leading zeros are dropped
RECURSIVE BigSubBorrow(_, _, _)
BigSubBorrow(x, y, borrow) ==
    IF x = <<>> THEN <<>>
    ELSE LET d == Head(x) - (IF y = <<>> THEN 0 ELSE Head(y)) - borrow
         IN  <<(d + Limb) % Limb>>
                \o BigSubBorrow(Tail(x), IF y = <<>> THEN <<>> ELSE Tail(y),
                                IF d < 0 THEN 1 ELSE 0)

BigSub(x, y) == BigTrim(BigSubBorrow(x, y, 0))

\* <<quotient, remainder>> of v divided by b, for a small quotient
RECURSIVE BigDivMod(_, _)
BigDivMod(v, b) ==
    IF BigLess(v, b) THEN <<0, v>>
    ELSE LET h == BigDivMod(BigSub(v, b), b)
         IN  <<h[1] + 1, h[2]>>

\* <<quotient, remainder>> of p*a divided by b, bit by bit over p, so that
\* no intermediate value exceeds 2*b + a.
RECURSIVE MulDivMod(_, _, _)
MulDivMod(p, a, b) ==
    IF p = 0 THEN <<0, <<>> >>
    ELSE LET h == MulDivMod(p \div 2, a, b)
             v == BigAdd(BigAdd(h[2], h[2]), IF p % 2 = 1 THEN a ELSE <<>>)
             d == BigDivMod(v, b)
         IN  <<2 * h[1] + d[1], d[2]>>

\* round(q + rem/b): the nearest integer, a tie going to the even one.
Rounded(q, rem, b) ==
    LET twice == BigAdd(rem, rem)
    IN  IF BigLess(b, twice) \/ (twice = b /\ q % 2 = 1) THEN q + 1 ELSE q

\* round(p*a/b)
RoundDiv(p, a, b) ==
    LET qr == MulDivMod(p, a, b)
    IN  Rounded(qr[1], qr[2], b)

\* round((q + rem/b) * term), for qr = <<q, rem>>
RoundTimes(qr, term, b) ==
    LET d == BigDivMod(BigMul(qr[2], term), b)
    IN  Rounded(qr[1] * term + d[1], d[2], b)

\* monthly_rate = interest_rate / 100 / 12 as a fraction <<num, den>>.
MonthlyRate(interest_rate) ==
    LET g == GCD(interest_rate, 120000)
    IN  <<interest_rate \div g, 120000 \div g>>

\* Mutant: the total is the rounded installment times the term.
calculate_repayment_from_rounded(obj) ==
    IF obj.loan_type \in DOMAIN LoanType /\ obj.amount # 0 /\ obj.term_months # 0
    THEN LET r == MonthlyRate(LoanType[obj.loan_type].interest_rate)
             term == obj.term_months
             up == BigPow(r[2] + r[1], term)
             num == BigMul(up, r[1])
             den == BigMul(BigSub(up, BigPow(r[2], term)), r[2])
             installment == IF r[1] > 0 THEN RoundDiv(obj.amount, num, den)
                            ELSE RoundDiv(obj.amount, <<1>>, BigOf(term))
         IN  [obj EXCEPT !.monthly_installment = Some(installment),
                         !.total_repayment = Some(installment * term)]
    ELSE obj

\* With r = a/b the installment P*r*(1+r)^n / ((1+r)^n - 1) is
\* P * a*(a+b)^n / (b*((a+b)^n - b^n)), held as <<quotient, remainder>>.
\* The total is rounded from the installment before its rounding.
calculate_repayment(obj) ==
    IF obj.loan_type \in DOMAIN LoanType /\ obj.amount # 0 /\ obj.term_months # 0
    THEN LET r == MonthlyRate(LoanType[obj.loan_type].interest_rate)
             term == obj.term_months
             up == BigPow(r[2] + r[1], term)
             num == BigMul(up, r[1])
             den == BigMul(BigSub(up, BigPow(r[2], term)), r[2])
             monthly_installment ==
                IF r[1] > 0 THEN MulDivMod(obj.amount, num, den)
                ELSE MulDivMod(obj.amount, <<1>>, BigOf(term))
             by == IF r[1] > 0 THEN den ELSE BigOf(term)
         IN  [obj EXCEPT
                !.monthly_installment =
                    Some(Rounded(monthly_installment[1], monthly_installment[2], by)),
                !.total_repayment = Some(RoundTimes(monthly_installment, term, by))]
    ELSE obj

(***************************************************************************)
(* LoanPayment table and the properties of LoanApplication.                *)
(***************************************************************************)
PaymentsOf(pays, id) == {i \in 1 .. Len(pays) : pays[i].loan_application = id}

RECURSIVE SumAmounts(_, _)
SumAmounts(pays, idx) ==
    IF idx = {} THEN 0
    ELSE LET i == CHOOSE j \in idx : TRUE
         IN  pays[i].amount + SumAmounts(pays, idx \ {i})

total_paid(pays, id) ==
    SumAmounts(pays, {i \in PaymentsOf(pays, id) : pays[i].status = "completed"})

\* Mutant: the balance is floored at 0.
remaining_balance_clamped(app, pays, id) ==
    IF Truthy(app.total_repayment)
    THEN IF app.total_repayment[1] - total_paid(pays, id) < 0
         THEN 0
         ELSE app.total_repayment[1] - total_paid(pays, id)
    ELSE 0

remaining_balance(app, pays, id) ==
    IF Truthy(app.total_repayment)
    THEN app.total_repayment[1] - total_paid(pays, id)
    ELSE 0

\* The pending or overdue payments of an application, and the first of them
\* by due_date (0 when there is none).
PendingPayments(pays, id) ==
    {i \in PaymentsOf(pays, id) : pays[i].status \in {"pending", "overdue"}}

FirstByDueDate(pays, idx) ==
    IF idx = {} THEN 0
    ELSE CHOOSE i \in idx :
            \A j \in idx : pays[i].due_date < pays[j].due_date
                           \/ (pays[i].due_date = pays[j].due_date /\ i <= j)

ScheduledPayment(id, obj, day, i) ==
    [loan_application |-> id,
     amount |-> obj.monthly_installment[1],
     due_date |-> day + ScheduleSpacingDays * i,
     installment_number |-> i,
     status |-> "pending",
     transaction_id |-> Null,
     payment_date |-> Null]

\* Mutant: the existing payments are not cleared.
create_payment_schedule_kept(pays, id, obj, day) ==
    pays \o [i \in 1 .. obj.term_months |-> ScheduledPayment(id, obj, day, i)]

create_payment_schedule(pays, id, obj, day) ==
    SelectSeq(pays, LAMBDA p : p.loan_application # id)
        \o [i \in 1 .. obj.term_months |-> ScheduledPayment(id, obj, day, i)]

\* Mutant: the repayment is calculated at a save whatever the status.
SavedApplicationAnyStatus(obj) ==
    IF ~Truthy(obj.monthly_installment) THEN calculate_repayment(obj) ELSE obj

\* Mutant: the repayment is calculated on every save of an approved
\* application.
SavedApplicationRecalculated(obj) ==
    IF obj.status = "approved" THEN calculate_repayment(obj) ELSE obj

\* LoanApplication.save: the stored application and the payment table.
SavedApplication(obj) ==
    IF obj.status = "approved" /\ ~Truthy(obj.monthly_installment)
    THEN calculate_repayment(obj)
    ELSE obj

SavedPayments(pays, id, saved, day) ==
    IF saved.status = "approved"
    THEN create_payment_schedule(pays, id, saved, day)
    ELSE pays

(***************************************************************************)
(* Notifications.                                                          *)
(***************************************************************************)
\* The Notification table is a bag of rows: no handler modelled here reads
\* the order of its rows.
Notification(user, title) == [user |-> user, title |-> title]

create_notification(table, user, title) ==
    table (+) SetToBag({Notification(user, title)})

\* The table only grows, so its rows count what a user has done so far.
Sent(user, title) == CopiesIn(Notification(user, title), notifications)

\* The request handled last: the handler, the requesting user, the
\* application it named (0: none) and how it ended.
Request(op, user, app, result) ==
    [op |-> op, user |-> user, app |-> app, result |-> result]

\* A worker that is handling no request.
Idle == [pc |-> "idle"]

Init ==
    /\ profiles = {}
    /\ apps = <<>>
    /\ payments = <<>>
    /\ withdrawals = <<>>
    /\ notifications = EmptyBag
    /\ today = 0
    /\ last = Request("none", "none", 0, "none")
    /\ body = NoBody
    /\ documents = <<>>
    /\ inflight = [p \in Procs |-> Idle]

(***************************************************************************)
(* The clock.                                                              *)
(***************************************************************************)
Tick ==
    /\ today < MaxDay
    /\ today' = today + 1
    /\ last' = Request("tick", "none", 0, "none")
    /\ UNCHANGED <<profiles, apps, payments, withdrawals, notifications>>

(***************************************************************************)
(* profile_update: a valid POST creates or updates the BorrowerProfile.    *)
(***************************************************************************)
profile_update(user) ==
    /\ user \in profiles => Sent(user, "Profile Updated") < MaxProfileUpdates
    /\ profiles' = profiles \cup {user}
    /\ notifications' = create_notification(notifications, user,
            IF user \in profiles THEN "Profile Updated" ELSE "Profile Completed!")
    /\ last' = Request("profile_update", user, 0, "success")
    /\ UNCHANGED <<apps, payments, withdrawals, today>>

(***************************************************************************)
(* loan_apply                                                              *)
(***************************************************************************)
\* Mutant: the profile check lets every user through.
HasProfileAlways(table, user) == TRUE

\* request.user.borrowerprofile exists.
HasProfile(table, user) == user \in table

LoanApplicationFormValid(amount, term) ==
    /\ amount >= MinLoanAmount
    /\ term >= 1
    /\ term <= MaxTermMonths

NewApplication(user, loan_type_id, amount, term) ==
    [applicant |-> user,
     loan_type |-> loan_type_id,
     amount |-> amount,
     term_months |-> term,
     status |-> "pending",
     monthly_installment |-> Null,
     total_repayment |-> Null]

loan_apply(user, loan_type_id, req) ==
    LET id == Len(apps) + 1
        saved == SavedApplication(
                    NewApplication(user, loan_type_id, req.amount, req.term_months))
        first == \A i \in 1 .. Len(apps) : apps[i].applicant # user
    IN
    \/ /\ ~(loan_type_id \in DOMAIN LoanType /\ LoanType[loan_type_id].is_active)
       /\ last' = Request("loan_apply", user, 0, "not_found")
       /\ UNCHANGED <<profiles, apps, payments, withdrawals, notifications, today>>
    \/ /\ loan_type_id \in DOMAIN LoanType /\ LoanType[loan_type_id].is_active
       /\ ~HasProfile(profiles, user)
       /\ last' = Request("loan_apply", user, 0, "profile_required")
       /\ UNCHANGED <<profiles, apps, payments, withdrawals, notifications, today>>
    \/ /\ loan_type_id \in DOMAIN LoanType /\ LoanType[loan_type_id].is_active
       /\ HasProfile(profiles, user)
       /\ IF req.method = "GET" THEN TRUE
          ELSE ~LoanApplicationFormValid(req.amount, req.term_months)
       /\ last' = Request("loan_apply", user, 0,
                          IF req.method = "GET" THEN "form" ELSE "form_invalid")
       /\ UNCHANGED <<profiles, apps, payments, withdrawals, notifications, today>>
    \/ /\ loan_type_id \in DOMAIN LoanType /\ LoanType[loan_type_id].is_active
       /\ HasProfile(profiles, user)
       /\ req.method = "POST" /\ LoanApplicationFormValid(req.amount, req.term_months)
       /\ Len(apps) < MaxApps
       /\ apps' = Append(apps, saved)
       /\ payments' = SavedPayments(payments, id, saved, today)
       /\ notifications' =
            LET submitted == create_notification(notifications, user,
                                                 "Loan Application Submitted")
            IN  IF first
                THEN create_notification(submitted, user, "Welcome to QuickLoan!")
                ELSE submitted
       /\ last' = Request("loan_apply", user, id, "success")
       /\ UNCHANGED <<profiles, withdrawals, today>>

(***************************************************************************)
(* The admin change form of LoanApplication: every field but the two       *)
(* read-only dates can be edited, then the object is saved.  `blank`: the  *)
(* two calculated fields are emptied in the form.                          *)
(***************************************************************************)
AdminEdited(app, status, loan_type_id, amount, term, blank) ==
    [app EXCEPT
        !.status = status,
        !.loan_type = loan_type_id,
        !.amount = amount,
        !.term_months = term,
        !.monthly_installment = IF blank THEN Null ELSE @,
        !.total_repayment = IF blank THEN Null ELSE @]

admin_save(id, status, loan_type_id, amount, term, blank) ==
    LET saved == SavedApplication(
                    AdminEdited(apps[id], status, loan_type_id, amount, term, blank))
    IN
    /\ id \in 1 .. Len(apps)
    /\ LoanApplicationFormValid(amount, term)
    /\ apps' = [apps EXCEPT ![id] = saved]
    /\ payments' = SavedPayments(payments, id, saved, today)
    /\ last' = Request("admin_save", "admin", id, IF blank THEN "saved_blanked" ELSE "saved")
    /\ UNCHANGED <<profiles, withdrawals, notifications, today>>

(***************************************************************************)
(* The mobile-money number checks of the two forms.                        *)
(***************************************************************************)
startswith(s, prefix) ==
    Len(s) >= Len(prefix) /\ SubSeq(s, 1, Len(prefix)) = prefix

MpesaPrefix == <<"2", "5", "4", "7">>

\* LoanWithdrawalForm: a required CharField(max_length=15), then clean_mpesa_number.
LoanWithdrawalFormValid(mpesa_number) ==
    /\ mpesa_number # <<>>
    /\ Len(mpesa_number) <= MpesaMaxLength
    /\ ~(~startswith(mpesa_number, MpesaPrefix) \/ Len(mpesa_number) # MpesaLength)

\* LoanPaymentForm.clean_mpesa_number behind CharField(max_length=15, required=False).
PaymentMpesaValid(payment_method, mpesa_number) ==
    /\ Len(mpesa_number) <= MpesaMaxLength
    /\ ~(payment_method = "mpesa" /\ mpesa_number = <<>>)
    /\ ~(mpesa_number # <<>>
         /\ (~startswith(mpesa_number, MpesaPrefix) \/ Len(mpesa_number) # MpesaLength))

\* Mutant: an amount equal to the remaining balance is refused.
PaymentAmountValidExclusive(amount, balance) ==
    /\ ~(amount < MinPaymentAmount)
    /\ ~(amount >= balance)

\* LoanPaymentForm.clean_amount
PaymentAmountValid(amount, balance) ==
    /\ ~(amount < MinPaymentAmount)
    /\ ~(amount > balance)

LoanPaymentFormValid(payment_method, mpesa_number, amount, balance) ==
    /\ payment_method \in PAYMENT_METHODS \cup {""}
    /\ PaymentMpesaValid(payment_method, mpesa_number)
    /\ PaymentAmountValid(amount, balance)

(***************************************************************************)
(* loan_withdraw                                                           *)
(***************************************************************************)
TransactionId(prefix, now) == Some(<<prefix, now>>)

\* Mutant: the "already withdrawn" check never finds a withdrawal.
HasWithdrawalNever(table, id) == FALSE

\* hasattr(loan_application, 'loanwithdrawal')
HasWithdrawal(table, id) ==
    \E i \in 1 .. Len(table) : table[i].loan_application = id

\* Mutant: the amount is read from the submitted fields.
NewWithdrawalPosted(id, app, req, day) ==
    [loan_application |-> id,
     mpesa_number |-> req.mpesa_number,
     amount |-> req.amount,
     status |-> "completed",
     withdrawal_date |-> day,
     processed_date |-> Some(day),
     transaction_id |-> TransactionId("MP", day)]

\* The row as it stands after the two saves of the handler.
NewWithdrawal(id, app, req, day) ==
    [loan_application |-> id,
     mpesa_number |-> req.mpesa_number,
     amount |-> app.amount,
     status |-> "completed",
     withdrawal_date |-> day,
     processed_date |-> Some(day),
     transaction_id |-> TransactionId("MP", day)]

\* Mutant: the column carries no unique constraint.
UniqueViolationNever(table, row) == FALSE

\* The one-to-one field makes loan_application unique in the table: the
\* insert of a second row for an application raises IntegrityError.
UniqueViolation(table, row) ==
    \E i \in 1 .. Len(table) : table[i].loan_application = row.loan_application

\* Mutant: the status of the application is not part of the lookup.
WithdrawFoundAnyStatus(user, id) ==
    /\ id \in 1 .. Len(apps)
    /\ apps[id].applicant = user

WithdrawFound(user, id) ==
    /\ id \in 1 .. Len(apps)
    /\ apps[id].applicant = user
    /\ apps[id].status = "approved"

loan_withdraw(user, id, req) ==
    LET row == NewWithdrawal(id, apps[id], req, today)
        sent == create_notification(notifications, user, "Loan Disbursement Successful!")
    IN
    \/ /\ ~WithdrawFound(user, id)
       /\ last' = Request("loan_withdraw", user, id, "not_found")
       /\ UNCHANGED <<profiles, apps, payments, withdrawals, notifications, today>>
    \/ /\ WithdrawFound(user, id)
       /\ HasWithdrawal(withdrawals, id)
       /\ last' = Request("loan_withdraw", user, id, "already_withdrawn")
       /\ UNCHANGED <<profiles, apps, payments, withdrawals, notifications, today>>
    \/ /\ WithdrawFound(user, id)
       /\ ~HasWithdrawal(withdrawals, id)
       /\ IF req.method = "GET" THEN TRUE ELSE ~LoanWithdrawalFormValid(req.mpesa_number)
       /\ last' = Request("loan_withdraw", user, id,
                          IF req.method = "GET" THEN "form" ELSE "form_invalid")
       /\ UNCHANGED <<profiles, apps, payments, withdrawals, notifications, today>>
    \/ /\ WithdrawFound(user, id)
       /\ ~HasWithdrawal(withdrawals, id)
       /\ req.method = "POST" /\ LoanWithdrawalFormValid(req.mpesa_number)
       /\ IF UniqueViolation(withdrawals, row)
          THEN /\ last' = Request("loan_withdraw", user, id, "integrity_error")
               /\ UNCHANGED <<withdrawals, notifications>>
          ELSE /\ withdrawals' = Append(withdrawals, row)
               /\ notifications' =
                    IF PaymentsOf(payments, id) # {}
                    THEN create_notification(sent, user, "Payment Schedule Created")
                    ELSE sent
               /\ last' = Request("loan_withdraw", user, id, "success")
       /\ UNCHANGED <<profiles, apps, payments, today>>

(***************************************************************************)
(* make_payment                                                            *)
(***************************************************************************)
PaymentFound(user, id) ==
    /\ id \in 1 .. Len(apps)
    /\ apps[id].applicant = user

\* The row the handler creates, as it stands after its two saves.
NewPayment(id, amount, pays, next, day) ==
    [loan_application |-> id,
     amount |-> amount,
     due_date |-> IF next # 0 THEN pays[next].due_date ELSE day,
     installment_number |-> IF next # 0 THEN pays[next].installment_number ELSE 1,
     status |-> "completed",
     transaction_id |-> TransactionId("PY", day),
     payment_date |-> Some(day)]

RecordedPayments(pays, id, amount, day) ==
    LET next == FirstByDueDate(pays, PendingPayments(pays, id))
        settled == IF next # 0
                   THEN [pays EXCEPT ![next].status = "completed",
                                     ![next].transaction_id = TransactionId("PY", day),
                                     ![next].payment_date = Some(day)]
                   ELSE pays
    IN  Append(settled, NewPayment(id, amount, pays, next, day))

make_payment(user, id, req) ==
    LET balance == remaining_balance(apps[id], payments, id)
        valid == LoanPaymentFormValid(req.payment_method, req.mpesa_number,
                                      req.amount, balance)
        paid == create_notification(notifications, user, "Payment Successful!")
    IN
    \/ /\ ~PaymentFound(user, id)
       /\ last' = Request("make_payment", user, id, "not_found")
       /\ UNCHANGED <<profiles, apps, payments, withdrawals, notifications, today>>
    \/ /\ PaymentFound(user, id)
       /\ IF req.method = "GET" THEN TRUE ELSE ~valid
       /\ last' = Request("make_payment", user, id,
                          IF req.method = "GET" THEN "form" ELSE "form_invalid")
       /\ UNCHANGED <<profiles, apps, payments, withdrawals, notifications, today>>
    \/ /\ PaymentFound(user, id)
       /\ req.method = "POST" /\ valid
       /\ Sent(user, "Payment Successful!") < MaxPayments
       /\ payments' = RecordedPayments(payments, id, req.amount, today)
       /\ notifications' =
            IF remaining_balance(apps[id], payments', id) <= 0
            THEN create_notification(paid, user, "Loan Fully Paid!")
            ELSE paid
       /\ last' = Request("make_payment", user, id, "success")
       /\ UNCHANGED <<profiles, apps, withdrawals, today>>

(***************************************************************************)
(* loan_withdraw and make_payment, save by save.  The view opens no        *)
(* transaction: every save() and every create() is committed on its own,   *)
(* and the requests of other workers read and write between them.  The     *)
(* reads that come before the first save of a request are taken together.  *)
(***************************************************************************)
Busy(p) == inflight[p].pc # "idle"

\* Mutant: the row is first saved with the default status of the model.
InsertedWithdrawalDefault(id, mpesa_number, amount, day) ==
    [loan_application |-> id,
     mpesa_number |-> mpesa_number,
     amount |-> amount,
     status |-> "pending",
     withdrawal_date |-> day,
     processed_date |-> Null,
     transaction_id |-> Null]

\* The row of the first withdrawal.save().
InsertedWithdrawal(id, mpesa_number, amount, day) ==
    [loan_application |-> id,
     mpesa_number |-> mpesa_number,
     amount |-> amount,
     status |-> "processing",
     withdrawal_date |-> day,
     processed_date |-> Null,
     transaction_id |-> Null]

\* The row of the second withdrawal.save().
CompletedWithdrawal(row, day) ==
    [row EXCEPT !.status = "completed",
                !.transaction_id = TransactionId("MP", day),
                !.processed_date = Some(day)]

\* The lookup, the "already withdrawn" check and the form.
WithdrawBegin(p, user, id, req) ==
    /\ ~Busy(p)
    /\ \/ /\ ~WithdrawFound(user, id)
          /\ last' = Request("loan_withdraw", user, id, "not_found")
          /\ UNCHANGED inflight
       \/ /\ WithdrawFound(user, id)
          /\ HasWithdrawal(withdrawals, id)
          /\ last' = Request("loan_withdraw", user, id, "already_withdrawn")
          /\ UNCHANGED inflight
       \/ /\ WithdrawFound(user, id)
          /\ ~HasWithdrawal(withdrawals, id)
          /\ IF req.method = "GET" THEN TRUE
             ELSE ~LoanWithdrawalFormValid(req.mpesa_number)
          /\ last' = Request("loan_withdraw", user, id,
                             IF req.method = "GET" THEN "form" ELSE "form_invalid")
          /\ UNCHANGED inflight
       \/ /\ WithdrawFound(user, id)
          /\ ~HasWithdrawal(withdrawals, id)
          /\ req.method = "POST" /\ LoanWithdrawalFormValid(req.mpesa_number)
          /\ inflight' = [inflight EXCEPT ![p] =
                [pc |-> "withdraw_insert", user |-> user, app |-> id,
                 mpesa_number |-> req.mpesa_number, amount |-> apps[id].amount]]
          /\ UNCHANGED last
    /\ UNCHANGED <<profiles, apps, documents, payments, withdrawals,
                   notifications, today, body>>

\* withdrawal.save() with status processing
WithdrawInsert(p) ==
    LET w == inflight[p]
        row == InsertedWithdrawal(w.app, w.mpesa_number, w.amount, today)
    IN
    /\ inflight[p].pc = "withdraw_insert"
    /\ IF UniqueViolation(withdrawals, row)
       THEN /\ last' = Request("loan_withdraw", w.user, w.app, "integrity_error")
            /\ inflight' = [inflight EXCEPT ![p] = Idle]
            /\ UNCHANGED withdrawals
       ELSE /\ withdrawals' = Append(withdrawals, row)
            /\ inflight' = [inflight EXCEPT ![p] =
                    [pc |-> "withdraw_complete", user |-> w.user, app |-> w.app,
                     pk |-> Len(withdrawals) + 1, row |-> row]]
            /\ UNCHANGED last
    /\ UNCHANGED <<profiles, apps, documents, payments, notifications, today, body>>

\* withdrawal.save() with status completed
WithdrawComplete(p) ==
    LET w == inflight[p]
        row == CompletedWithdrawal(w.row, today)
    IN
    /\ inflight[p].pc = "withdraw_complete"
    /\ withdrawals' = [withdrawals EXCEPT ![w.pk] = row]
    /\ inflight' = [inflight EXCEPT ![p] =
            [pc |-> "withdraw_notify", user |-> w.user, app |-> w.app]]
    /\ UNCHANGED <<profiles, apps, documents, payments, notifications, today,
                   last, body>>

\* The two notifications and the redirect.
WithdrawNotify(p) ==
    LET w == inflight[p]
        sent == create_notification(notifications, w.user,
                                    "Loan Disbursement Successful!")
    IN
    /\ inflight[p].pc = "withdraw_notify"
    /\ notifications' =
            IF PaymentsOf(payments, w.app) # {}
            THEN create_notification(sent, w.user, "Payment Schedule Created")
            ELSE sent
    /\ last' = Request("loan_withdraw", w.user, w.app, "success")
    /\ inflight' = [inflight EXCEPT ![p] = Idle]
    /\ UNCHANGED <<profiles, apps, documents, payments, withdrawals, today, body>>

\* Mutant: the row is first saved as completed.
InsertedPaymentCompleted(id, amount, next_payment, day) ==
    [loan_application |-> id,
     amount |-> amount,
     due_date |-> IF next_payment # Null THEN next_payment[1].due_date ELSE day,
     installment_number |->
        IF next_payment # Null THEN next_payment[1].installment_number ELSE 1,
     status |-> "completed",
     transaction_id |-> Null,
     payment_date |-> Some(day)]

\* The row of the first payment.save(); next_payment is the installment the
\* request selected, or null.
InsertedPayment(id, amount, next_payment, day) ==
    [loan_application |-> id,
     amount |-> amount,
     due_date |-> IF next_payment # Null THEN next_payment[1].due_date ELSE day,
     installment_number |->
        IF next_payment # Null THEN next_payment[1].installment_number ELSE 1,
     status |-> "processing",
     transaction_id |-> Null,
     payment_date |-> Some(day)]

\* The requests that are past the form of make_payment.
PaymentsUnderWay(user) ==
    Cardinality({p \in Procs :
        /\ inflight[p].pc \in {"payment_insert", "payment_complete",
                                "payment_settle", "payment_notify"}
        /\ inflight[p].user = user})

\* The lookup, the form and the choice of the installment.
PaymentBegin(p, user, id, req) ==
    LET balance == remaining_balance(apps[id], payments, id)
        valid == LoanPaymentFormValid(req.payment_method, req.mpesa_number,
                                      req.amount, balance)
        next == FirstByDueDate(payments, PendingPayments(payments, id))
    IN
    /\ ~Busy(p)
    /\ \/ /\ ~PaymentFound(user, id)
          /\ last' = Request("make_payment", user, id, "not_found")
          /\ UNCHANGED inflight
       \/ /\ PaymentFound(user, id)
          /\ IF req.method = "GET" THEN TRUE ELSE ~valid
          /\ last' = Request("make_payment", user, id,
                             IF req.method = "GET" THEN "form" ELSE "form_invalid")
          /\ UNCHANGED inflight
       \/ /\ PaymentFound(user, id)
          /\ req.method = "POST" /\ valid
          /\ Sent(user, "Payment Successful!") + PaymentsUnderWay(user) < MaxPayments
          /\ inflight' = [inflight EXCEPT ![p] =
                [pc |-> "payment_insert", user |-> user, app |-> id,
                 amount |-> req.amount,
                 next_pk |-> next,
                 next_payment |-> IF next # 0 THEN Some(payments[next]) ELSE Null,
                 payment_date |-> today]]
          /\ UNCHANGED last
    /\ UNCHANGED <<profiles, apps, documents, payments, withdrawals,
                   notifications, today, body>>

\* payment.save() with status processing
PaymentInsert(p) ==
    LET w == inflight[p]
        row == InsertedPayment(w.app, w.amount, w.next_payment, w.payment_date)
    IN
    /\ inflight[p].pc = "payment_insert"
    /\ payments' = Append(payments, row)
    /\ inflight' = [inflight EXCEPT ![p] =
            [pc |-> "payment_complete", user |-> w.user, app |-> w.app,
             next_pk |-> w.next_pk, next_payment |-> w.next_payment,
             pk |-> Len(payments) + 1, row |-> row]]
    /\ UNCHANGED <<profiles, apps, documents, withdrawals, notifications, today,
                   last, body>>

\* payment.save() with status completed
PaymentComplete(p) ==
    LET w == inflight[p]
        row == [w.row EXCEPT !.status = "completed",
                             !.transaction_id = TransactionId("PY", today)]
    IN
    /\ inflight[p].pc = "payment_complete"
    /\ payments' = [payments EXCEPT ![w.pk] = row]
    /\ inflight' = [inflight EXCEPT ![p] =
            [pc |-> "payment_settle", user |-> w.user, app |-> w.app,
             next_pk |-> w.next_pk, next_payment |-> w.next_payment,
             transaction_id |-> row.transaction_id]]
    /\ UNCHANGED <<profiles, apps, documents, withdrawals, notifications, today,
                   last, body>>

\* next_payment.save(), when an installment was selected
PaymentSettle(p) ==
    LET w == inflight[p]
    IN
    /\ inflight[p].pc = "payment_settle"
    /\ payments' =
            IF w.next_payment # Null
            THEN [payments EXCEPT ![w.next_pk] =
                    [w.next_payment[1] EXCEPT !.status = "completed",
                                              !.transaction_id = w.transaction_id,
                                              !.payment_date = Some(today)]]
            ELSE payments
    /\ inflight' = [inflight EXCEPT ![p] =
            [pc |-> "payment_notify", user |-> w.user, app |-> w.app]]
    /\ UNCHANGED <<profiles, apps, documents, withdrawals, notifications, today,
                   last, body>>

\* The notifications and the redirect.
PaymentNotify(p) ==
    LET w == inflight[p]
        paid == create_notification(notifications, w.user, "Payment Successful!")
    IN
    /\ inflight[p].pc = "payment_notify"
    /\ notifications' =
            IF remaining_balance(apps[w.app], payments, w.app) <= 0
            THEN create_notification(paid, w.user, "Loan Fully Paid!")
            ELSE paid
    /\ last' = Request("make_payment", w.user, w.app, "success")
    /\ inflight' = [inflight EXCEPT ![p] = Idle]
    /\ UNCHANGED <<profiles, apps, documents, payments, withdrawals, today, body>>

(***************************************************************************)
(* loan_detail: the page of an application, with the upload of a document  *)
(* and the reminder of an overdue payment, once a day.  A payment falls    *)
(* overdue 30 days after the approval at the earliest.                     *)
(***************************************************************************)
DOCUMENT_TYPES ==
    {"id_front", "id_back", "passport", "payslip", "bank_statement",
     "business_registration", "other"}

VALID_EXTENSIONS == {".jpg", ".jpeg", ".png", ".pdf"}

LoanDocumentFormValid(document_type, document_file) ==
    /\ document_type \in DOCUMENT_TYPES
    /\ ~(document_file.size > MaxDocumentSize)
    /\ ~(document_file.ext \notin VALID_EXTENSIONS)

DetailFound(user, id) ==
    /\ id \in 1 .. Len(apps)
    /\ ~(apps[id].applicant # user)

OverdueNotification(user, day) ==
    [user |-> user, title |-> "Payment Overdue", created_at |-> day]

overdue_payments(pays, id, day) ==
    {i \in PaymentsOf(pays, id) :
        pays[i].due_date < day /\ pays[i].status \in {"pending", "failed"}}

\* The notifications after the overdue check of the page.
OverdueChecked(table, user, id) ==
    IF /\ overdue_payments(payments, id, today) # {}
       /\ apps[id].status = "approved"
       /\ ~BagIn(OverdueNotification(user, today), table)
    THEN table (+) SetToBag({OverdueNotification(user, today)})
    ELSE table

loan_detail(user, id, req) ==
    LET upload == IF req.method = "POST" THEN req.upload_document ELSE FALSE
        valid == IF upload
                 THEN LoanDocumentFormValid(req.document_type, req.document_file)
                 ELSE FALSE
    IN
    \/ /\ ~DetailFound(user, id)
       /\ last' = Request("loan_detail", user, id, "redirect_message")
       /\ UNCHANGED <<profiles, apps, documents, payments, withdrawals,
                      notifications, today>>
    \/ /\ DetailFound(user, id)
       /\ valid
       /\ Len(documents) < MaxDocuments
       /\ documents' = Append(documents, [loan_application |-> id,
                                          document_type |-> req.document_type])
       /\ notifications' = create_notification(notifications, user, "Document Uploaded")
       /\ last' = Request("loan_detail", user, id, "uploaded")
       /\ UNCHANGED <<profiles, apps, payments, withdrawals, today>>
    \/ /\ DetailFound(user, id)
       /\ ~valid
       /\ notifications' = OverdueChecked(notifications, user, id)
       /\ last' = Request("loan_detail", user, id,
                          IF upload THEN "form_invalid" ELSE "detail")
       /\ UNCHANGED <<profiles, apps, documents, payments, withdrawals, today>>

(***************************************************************************)
(* payment_history                                                         *)
(***************************************************************************)
payment_history(user, id) ==
    /\ last' = Request("payment_history", user, id,
                       IF PaymentFound(user, id) THEN "history" ELSE "not_found")
    /\ UNCHANGED <<profiles, apps, documents, payments, withdrawals,
                   notifications, today>>

(***************************************************************************)
(* The requests, with the inputs they are tried on.  A request that ends   *)
(* in "not found" or "already withdrawn" returns before its body is read.  *)
(***************************************************************************)
\* A request handled in one piece by a handler that stores no document.
InOnePiece == UNCHANGED <<documents, inflight>>

ApplyInputs(u, t) ==
    IF t \in DOMAIN LoanType /\ HasProfile(profiles, u) THEN ApplyRequests ELSE {Get}

WithdrawInputs(u, id) ==
    IF WithdrawFound(u, id) /\ ~HasWithdrawal(withdrawals, id)
    THEN WithdrawRequests ELSE {Get}

PaymentInputs(u, id) ==
    IF PaymentFound(u, id) THEN PaymentRequests ELSE {Get}

ClockTick == Tick /\ body' = NoBody /\ InOnePiece

ProfileRequest == \E u \in Users : profile_update(u) /\ body' = NoBody /\ InOnePiece

ApplyRequest ==
    \E u \in Users, t \in LoanTypeIds :
        \E req \in ApplyInputs(u, t) : loan_apply(u, t, req) /\ body' = NoBody /\ InOnePiece

WithdrawRequest ==
    \E u \in Users, id \in AppIds :
        \E req \in WithdrawInputs(u, id) : loan_withdraw(u, id, req) /\ body' = NoBody /\ InOnePiece

PaymentRequest ==
    \E u \in Users, id \in AppIds :
        \E req \in PaymentInputs(u, id) : make_payment(u, id, req) /\ body' = NoBody /\ InOnePiece

DetailInputs(u, id) ==
    IF DetailFound(u, id) THEN DetailRequests ELSE {Get}

DetailRequest ==
    \E u \in Users, id \in AppIds :
        \E req \in DetailInputs(u, id) :
            loan_detail(u, id, req) /\ body' = NoBody /\ UNCHANGED inflight

HistoryRequest ==
    \E u \in Users, id \in AppIds :
        payment_history(u, id) /\ body' = NoBody /\ UNCHANGED inflight

\* The same two requests, their submitted fields recorded.
WithdrawSubmission ==
    \E u \in Users, id \in AppIds :
        \E req \in WithdrawInputs(u, id) : loan_withdraw(u, id, req) /\ body' = req /\ InOnePiece

PaymentSubmission ==
    \E u \in Users, id \in AppIds :
        \E req \in PaymentInputs(u, id) : make_payment(u, id, req) /\ body' = req /\ InOnePiece

\* The admin changes the status of an application and saves it.
AdminStatusChange ==
    \E id \in 1 .. Len(apps) :
        \E s \in APPLICATION_STATUS :
            /\ admin_save(id, s, apps[id].loan_type, apps[id].amount,
                          apps[id].term_months, FALSE)
            /\ body' = NoBody /\ InOnePiece

\* The admin edits any of the fields of an application and saves it.
AdminChange ==
    \E id \in 1 .. Len(apps) :
        \E s \in AdminStatuses, t \in DOMAIN LoanType,
           a \in AdminAmounts, n \in AdminTerms, b \in BOOLEAN :
            admin_save(id, s, t, a, n, b) /\ body' = NoBody /\ InOnePiece

\* Origination and servicing: applications move between statuses, funds
\* are withdrawn and payments are made, as the days pass.
Next ==
    \/ ClockTick
    \/ ProfileRequest
    \/ ApplyRequest
    \/ AdminStatusChange
    \/ WithdrawRequest
    \/ PaymentRequest

Spec == Init /\ [][Next]_vars

\* Back office: the admin edits applications freely.
NextAdmin ==
    \/ ProfileRequest
    \/ ApplyRequest
    \/ AdminChange

SpecAdmin == Init /\ [][NextAdmin]_vars

\* Forms: what the withdrawal and the payment form accept, the submitted
\* fields on record.
NextForms ==
    \/ ProfileRequest
    \/ ApplyRequest
    \/ AdminStatusChange
    \/ WithdrawSubmission
    \/ PaymentSubmission

SpecForms == Init /\ [][NextForms]_vars

\* Workers: the requests to loan_withdraw and make_payment of several
\* workers run save by save, one step of one worker at a time.  The admin
\* saves an application while no such request is under way.
\* A request is taken by the first worker that is free.
FirstFree(p) == ~Busy(p) /\ \A q \in Procs : q < p => Busy(q)

WorkerWithdrawInputs(u, id) ==
    {req \in WithdrawInputs(u, id) :
        IF req.method = "GET" THEN TRUE
        ELSE req.mpesa_number \in {ValidNumber, ShortNumber}
             /\ req.amount = apps[id].amount}

WorkerPaymentInputs(u, id) ==
    {req \in PaymentInputs(u, id) :
        IF req.method = "GET" THEN TRUE
        ELSE /\ req.payment_method = "mpesa"
             /\ req.mpesa_number \in {ValidNumber, ShortNumber}
             /\ req.amount = MinPaymentAmount}

WithdrawStart ==
    \E p \in Procs, u \in Users, id \in AppIds :
        \E req \in WorkerWithdrawInputs(u, id) :
            FirstFree(p) /\ WithdrawBegin(p, u, id, req)

WithdrawStep ==
    \E p \in Procs : WithdrawInsert(p) \/ WithdrawComplete(p) \/ WithdrawNotify(p)

PaymentStart ==
    \E p \in Procs, u \in Users, id \in AppIds :
        \E req \in WorkerPaymentInputs(u, id) :
            FirstFree(p) /\ PaymentBegin(p, u, id, req)

PaymentStep ==
    \E p \in Procs :
        PaymentInsert(p) \/ PaymentComplete(p) \/ PaymentSettle(p) \/ PaymentNotify(p)

AdminBetweenRequests ==
    /\ \A p \in Procs : ~Busy(p)
    /\ AdminStatusChange

NextSteps ==
    \/ ClockTick
    \/ ProfileRequest
    \/ ApplyRequest
    \/ AdminBetweenRequests
    \/ WithdrawStart
    \/ WithdrawStep
    \/ PaymentStart
    \/ PaymentStep

SpecSteps == Init /\ [][NextSteps]_vars

\* Pages: every handler that takes the id of an application, asked for
\* applications that exist or not, by their applicant or by another user.
NextLookup ==
    \/ ProfileRequest
    \/ ApplyRequest
    \/ AdminStatusChange
    \/ DetailRequest
    \/ WithdrawRequest
    \/ PaymentRequest
    \/ HistoryRequest

SpecLookup == Init /\ [][NextLookup]_vars

\* Repayment terms: one application, submitted with any of the amounts,
\* terms and loan types, is approved.
InitRepayment ==
    \E t \in DOMAIN LoanType, a \in RepaymentAmounts, n \in RepaymentTerms :
        /\ profiles = {"alice"}
        /\ apps = <<SavedApplication(NewApplication("alice", t, a, n))>>
        /\ payments = <<>>
        /\ withdrawals = <<>>
        /\ notifications =
                create_notification(
                    create_notification(
                        create_notification(EmptyBag, "alice", "Profile Completed!"),
                        "alice", "Loan Application Submitted"),
                    "alice", "Welcome to QuickLoan!")
        /\ today = 0
        /\ last = Request("loan_apply", "alice", 1, "success")
        /\ body = NoBody
        /\ documents = <<>>
        /\ inflight = [p \in Procs |-> Idle]

NextRepayment == AdminStatusChange

SpecRepayment == InitRepayment /\ [][NextRepayment]_vars

(***************************************************************************)
(* Properties.                                                             *)
(***************************************************************************)
WithdrawalsOf(table, id) == {i \in 1 .. Len(table) : table[i].loan_application = id}

OwnApproved(user, id) ==
    /\ id \in 1 .. Len(apps)
    /\ apps[id].applicant = user
    /\ apps[id].status = "approved"

C2_IdempotentApproval ==
    [][\A id \in 1 .. Len(apps) :
        (/\ last'.op = "admin_save" /\ last'.app = id /\ last'.result = "saved"
         /\ apps[id].monthly_installment # Null
         /\ apps[id].total_repayment # Null
         /\ apps'[id].status = "approved")
        => /\ apps'[id].monthly_installment = apps[id].monthly_installment
           /\ apps'[id].total_repayment = apps[id].total_repayment]_vars

\* An approved application was saved, and its stored installment is not the
\* one its present amount, term and rate would give.
C2_Witness ==
    /\ last.op = "admin_save"
    /\ last.result = "saved"
    /\ last.app \in 1 .. Len(apps)
    /\ apps[last.app].status = "approved"
    /\ apps[last.app].monthly_installment # Null
    /\ apps[last.app].monthly_installment
            # calculate_repayment(apps[last.app]).monthly_installment
    /\ apps[last.app].total_repayment
            # calculate_repayment(apps[last.app]).total_repayment

\* C3: once an approved application has its schedule, a further save of it
\* with status approved leaves the LoanPayment records as they are.
C3_ScheduleGeneratedOnce ==
    [][\A id \in 1 .. Len(apps) :
        (/\ last'.op = "admin_save" /\ last'.app = id
         /\ apps[id].status = "approved"
         /\ PaymentsOf(payments, id) # {}
         /\ apps'[id].status = "approved")
        => payments' = payments]_vars

\* C4: right after a save has generated the schedule of an approved
\* application with term n, the application owns exactly n payments, numbered
\* 1..n, each pending, of the amount monthly_installment, payment i being due
\* 30*i days after the day of the save.
C4_ScheduleShape ==
    \A id \in 1 .. Len(apps) :
        (last.op \in {"admin_save", "loan_apply"} /\ last.app = id
         /\ apps[id].status = "approved")
        => LET own == PaymentsOf(payments, id)
           IN  /\ Cardinality(own) = apps[id].term_months
               /\ {payments[i].installment_number : i \in own} = 1 .. apps[id].term_months
               /\ \A i \in own :
                    /\ payments[i].status = "pending"
                    /\ apps[id].monthly_installment = <<payments[i].amount>>
                    /\ payments[i].due_date = today + 30 * payments[i].installment_number

\* The schedule of a two-month loan was generated again, on a later day,
\* over an earlier one.
C4_Witness ==
    /\ last.op = "admin_save"
    /\ last.app \in 1 .. Len(apps)
    /\ apps[last.app].status = "approved"
    /\ apps[last.app].term_months = 2
    /\ today > 0
    /\ Cardinality(PaymentsOf(payments, last.app)) = 2

\* C5: while total_repayment is set and unchanged, no step increases
\* remaining_balance.
C5_BalanceNeverIncreases ==
    [][\A id \in 1 .. Len(apps) :
        (/\ apps[id].total_repayment # Null
         /\ apps'[id].total_repayment = apps[id].total_repayment)
        => remaining_balance(apps'[id], payments', id)
                <= remaining_balance(apps[id], payments, id)]_vars

\* C6: a submitted payment is accepted exactly when its amount is at least
\* 100.00 and at most the remaining balance and the mobile-number check
\* passes; with an amount outside these bounds it is refused and no payment
\* and no notification is created or changed.
C6_PaymentAccepted ==
    [][(last'.op = "make_payment" /\ body'.method = "POST" /\ last'.result # "not_found")
        => LET balance == remaining_balance(apps[last'.app], payments, last'.app)
               inRange == 10000 <= body'.amount /\ body'.amount <= balance
           IN  /\ (last'.result = "success")
                    <=> (inRange /\ PaymentMpesaValid(body'.payment_method,
                                                      body'.mpesa_number))
               /\ ~inRange => /\ last'.result = "form_invalid"
                              /\ payments' = payments
                              /\ notifications' = notifications]_vars

\* A payment of exactly the remaining balance (here the whole repayment) was
\* accepted.
C6_Witness ==
    /\ last.op = "make_payment"
    /\ last.result = "success"
    /\ body.method = "POST"
    /\ apps[last.app].total_repayment = <<body.amount>>

IsDigit(c) == c \in {"0", "1", "2", "3", "4", "5", "6", "7", "8", "9"}

\* 2547 followed by exactly 8 decimal digits.
MatchesMpesaPattern(s) ==
    /\ Len(s) = 12
    /\ SubSeq(s, 1, 4) = <<"2", "5", "4", "7">>
    /\ \A i \in 5 .. 12 : IsDigit(s[i])

\* C7: the withdrawal form accepts a number exactly when it is 2547 followed
\* by 8 digits; the payment form accepts a supplied number exactly then, and
\* refuses an empty one when the method is mpesa.
C7_MpesaNumberFormat ==
    [][/\ (/\ last'.op = "loan_withdraw" /\ body'.method = "POST"
           /\ OwnApproved(last'.user, last'.app)
           /\ WithdrawalsOf(withdrawals, last'.app) = {})
            => ((last'.result = "success") <=> MatchesMpesaPattern(body'.mpesa_number))
       /\ (/\ last'.op = "make_payment" /\ body'.method = "POST"
           /\ last'.result # "not_found"
           /\ 10000 <= body'.amount
           /\ body'.amount <= remaining_balance(apps[last'.app], payments, last'.app))
            => ((last'.result = "success")
                    <=> IF body'.mpesa_number = <<>>
                        THEN body'.payment_method # "mpesa"
                        ELSE MatchesMpesaPattern(body'.mpesa_number))]_vars

\* C8: a withdrawal is only created by a loan_withdraw request of the
\* applicant while the application is approved; a loan_withdraw request for
\* an application that is not approved, or from another user, creates no
\* withdrawal and no notification.
C8_WithdrawOnlyOwnApproved ==
    [][/\ withdrawals' # withdrawals
            => /\ last'.op = "loan_withdraw"
               /\ OwnApproved(last'.user, last'.app)
               /\ Len(withdrawals') = Len(withdrawals) + 1
               /\ SubSeq(withdrawals', 1, Len(withdrawals)) = withdrawals
               /\ withdrawals'[Len(withdrawals')].loan_application = last'.app
       /\ (last'.op = "loan_withdraw" /\ ~OwnApproved(last'.user, last'.app))
            => /\ withdrawals' = withdrawals
               /\ notifications' = notifications]_vars

\* The applicant asked to withdraw from an application that is not approved.
C8_Witness ==
    /\ last.op = "loan_withdraw"
    /\ last.result = "not_found"
    /\ last.app \in 1 .. Len(apps)
    /\ apps[last.app].applicant = last.user
    /\ apps[last.app].status \in {"pending", "under_review", "more_info", "rejected"}
    /\ withdrawals = <<>>

\* C9: a withdrawal is created with the amount of its application as it is
\* at the request, whatever amount the request submits.
C9_WithdrawalAmountIsPrincipal ==
    [][Len(withdrawals') > Len(withdrawals)
        => LET w == withdrawals'[Len(withdrawals')]
           IN  w.amount = apps[w.loan_application].amount]_vars

\* A withdrawal was created by a request that submitted another amount.
C9_Witness ==
    /\ last.op = "loan_withdraw"
    /\ last.result = "success"
    /\ body.method = "POST"
    /\ \E i \in WithdrawalsOf(withdrawals, last.app) :
            /\ withdrawals[i].amount # body.amount
            /\ withdrawals[i].amount = apps[last.app].amount

StatusRank(s) ==
    CASE s = "pending" -> 0
      [] s = "under_review" -> 1
      [] s = "more_info" -> 2
      [] OTHER -> 3

\* C10: the status of an application only moves forward along pending,
\* under_review, more_info, then approved or rejected, and never leaves
\* approved or rejected.
C10_StatusOnlyForward ==
    [][\A id \in 1 .. Len(apps) :
        \/ apps'[id].status = apps[id].status
        \/ /\ apps[id].status \notin {"approved", "rejected"}
           /\ StatusRank(apps[id].status) < StatusRank(apps'[id].status)]_vars

\* An application as loan_apply leaves it: nothing calculated, no schedule.
Uncalculated(app, pays, id) ==
    /\ app.monthly_installment = Null
    /\ app.total_repayment = Null
    /\ PaymentsOf(pays, id) = {}

SavedApproved(id) ==
    /\ last'.op \in {"admin_save", "loan_apply"}
    /\ last'.app = id
    /\ apps'[id].status = "approved"

\* C11: an application starts pending, with monthly_installment and
\* total_repayment null and no payments, and stays without installment, total
\* and payments through every step that is not a save of it with status
\* approved.
C11_NullUntilApproved ==
    [][\A id \in 1 .. Len(apps') :
        /\ id > Len(apps)
            => /\ apps'[id].status = "pending"
               /\ Uncalculated(apps'[id], payments', id)
        /\ (id <= Len(apps) /\ Uncalculated(apps[id], payments, id) /\ ~SavedApproved(id))
            => Uncalculated(apps'[id], payments', id)]_vars

\* A payment was submitted against a rejected application that was never
\* approved: it was refused and the application is as it was submitted.
C11_Witness ==
    /\ last.op = "make_payment"
    /\ last.result = "form_invalid"
    /\ apps[last.app].status = "rejected"
    /\ Uncalculated(apps[last.app], payments, last.app)

\* C16: an application is created only for a user who has a profile at that
\* moment, so every applicant has a profile; a loan_apply request of a user
\* without a profile creates no application and no notification.
C16_ProfileBeforeApplication ==
    [][/\ \A id \in 1 .. Len(apps') : apps'[id].applicant \in profiles'
       /\ Len(apps') > Len(apps)
            => /\ last'.op = "loan_apply"
               /\ apps'[Len(apps')].applicant = last'.user
               /\ last'.user \in profiles
       /\ (last'.op = "loan_apply" /\ last'.user \notin profiles)
            => /\ apps' = apps
               /\ notifications' = notifications]_vars

\* A user without a profile was sent to the profile form, after another
\* user's application had gone through.
C16_Witness ==
    /\ last.op = "loan_apply"
    /\ last.result = "profile_required"
    /\ last.user \notin profiles
    /\ Len(apps) > 0

\* C19: every accepted payment has an amount of at least 100.00 and at most
\* the remaining balance of that moment, and the balance after it is
\* total_repayment minus the completed amounts, not floored at 0: it can be
\* negative.
C19_BalanceNotClamped ==
    [][(last'.op = "make_payment" /\ last'.result = "success")
        => LET id == last'.app
           IN  /\ 10000 <= body'.amount
               /\ body'.amount <= remaining_balance(apps[id], payments, id)
               /\ remaining_balance(apps'[id], payments', id)
                    = apps'[id].total_repayment[1] - total_paid(payments', id)]_vars

\* After an accepted payment the remaining balance is negative.
C19_Witness ==
    /\ last.op = "make_payment"
    /\ last.result = "success"
    /\ remaining_balance(apps[last.app], payments, last.app) < 0

\* C20: an accepted payment of amount a raises total_paid by a and lowers
\* remaining_balance by a.
C20_PaidByAmount ==
    [][(last'.op = "make_payment" /\ last'.result = "success")
        => LET id == last'.app
           IN  /\ total_paid(payments', id) = total_paid(payments, id) + body'.amount
               /\ remaining_balance(apps'[id], payments', id)
                    = remaining_balance(apps[id], payments, id) - body'.amount]_vars

\* C13: the stored total_repayment is the stored (rounded)
\* monthly_installment times term_months; for 10000.00 at 12% over 12 months
\* the installment is 888.49 and the total 10661.88.
C13_TotalFromRoundedInstallment ==
    \A id \in 1 .. Len(apps) :
        apps[id].monthly_installment # Null
        => /\ apps[id].total_repayment
                = <<apps[id].monthly_installment[1] * apps[id].term_months>>
           /\ (/\ apps[id].amount = 1000000
               /\ LoanType[apps[id].loan_type].interest_rate = 1200
               /\ apps[id].term_months = 12)
                => /\ apps[id].monthly_installment = <<88849>>
                   /\ apps[id].total_repayment = <<1066188>>

\* C14 as stated: at rate 0 the stored installment times the term is the
\* principal, and so is the stored total.
C14_ZeroRateExact ==
    \A id \in 1 .. Len(apps) :
        (apps[id].monthly_installment # Null
         /\ LoanType[apps[id].loan_type].interest_rate = 0)
        => /\ apps[id].monthly_installment[1] * apps[id].term_months = apps[id].amount
           /\ apps[id].total_repayment = <<apps[id].amount>>

\* C14, amended: at rate 0 the stored total is the principal P and the stored
\* installment is P/n to the nearest cent, so that installment * n is within
\* n/2 cents of P, and equal to P when n divides P in cents.
C14_ZeroRateRounded ==
    \A id \in 1 .. Len(apps) :
        (apps[id].monthly_installment # Null
         /\ LoanType[apps[id].loan_type].interest_rate = 0)
        => LET P == apps[id].amount
               n == apps[id].term_months
               m == apps[id].monthly_installment[1]
           IN  /\ apps[id].total_repayment = <<P>>
               /\ 2 * (m * n - P) <= n
               /\ 2 * (P - m * n) <= n
               /\ P % n = 0 => m * n = P

\* An approved loan at rate 0 whose installments do not add up to the
\* principal.
C14_Witness ==
    /\ last.op = "admin_save"
    /\ apps[last.app].status = "approved"
    /\ LoanType[apps[last.app].loan_type].interest_rate = 0
    /\ apps[last.app].amount % apps[last.app].term_months # 0
    /\ apps[last.app].monthly_installment[1] * apps[last.app].term_months
            # apps[last.app].amount
    /\ apps[last.app].total_repayment = <<apps[last.app].amount>>

OwnApplication(user, id) ==
    /\ id \in 1 .. Len(apps)
    /\ apps[id].applicant = user

\* C15: a request to loan_detail, loan_withdraw, make_payment or
\* payment_history that names an application that does not exist or belongs
\* to another user ends in a redirect with a message, and leaves the
\* applications, documents, payments, withdrawals and notifications as they
\* are.
C15_NotFoundRedirects ==
    [][(/\ last'.op \in {"loan_detail", "loan_withdraw", "make_payment", "payment_history"}
        /\ ~OwnApplication(last'.user, last'.app))
        => /\ last'.result = "redirect_message"
           /\ UNCHANGED <<apps, documents, payments, withdrawals, notifications>>]_vars

\* C12: no stored withdrawal is pending or processing and no stored payment
\* is processing: the record of a request is only ever seen in its final
\* status.
C12_NoPartialWrites ==
    /\ \A i \in 1 .. Len(withdrawals) :
            withdrawals[i].status \notin {"pending", "processing"}
    /\ \A i \in 1 .. Len(payments) : payments[i].status # "processing"

\* C17 as stated: the withdrawal of a request is first stored with status
\* pending, and from there moves to processing and then to completed.
C17_PendingProcessingCompleted ==
    [][/\ Len(withdrawals') > Len(withdrawals)
            => withdrawals'[Len(withdrawals')].status = "pending"
       /\ \A i \in 1 .. Len(withdrawals) :
            withdrawals'[i].status # withdrawals[i].status
            => <<withdrawals[i].status, withdrawals'[i].status>>
                    \in {<<"pending", "processing">>, <<"processing", "completed">>}]_vars

\* C17, amended: the withdrawal of a request is first stored with status
\* processing, without transaction id and processed_date; the only change
\* made to a stored withdrawal takes it from processing to completed and
\* sets its transaction id to MP + the time and its processed_date; when
\* the request ends in success the withdrawal of its application is
\* completed, with a transaction id and a processed_date.
C17_ProcessingThenCompleted ==
    [][/\ Len(withdrawals') > Len(withdrawals)
            => LET w == withdrawals'[Len(withdrawals')]
               IN  /\ Len(withdrawals') = Len(withdrawals) + 1
                   /\ w.status = "processing"
                   /\ w.transaction_id = Null
                   /\ w.processed_date = Null
       /\ \A i \in 1 .. Len(withdrawals) :
            withdrawals'[i] # withdrawals[i]
            => /\ withdrawals[i].status = "processing"
               /\ withdrawals'[i].status = "completed"
               /\ withdrawals'[i].transaction_id = <<(<<"MP", today>>)>>
               /\ withdrawals'[i].processed_date = <<today>>
       /\ (last' # last /\ last'.op = "loan_withdraw" /\ last'.result = "success")
            => \E i \in WithdrawalsOf(withdrawals', last'.app) :
                    /\ withdrawals'[i].status = "completed"
                    /\ withdrawals'[i].transaction_id # Null
                    /\ withdrawals'[i].processed_date # Null]_vars

\* A withdrawal request has ended in success, on the day after the
\* application was approved.
C17_Witness ==
    /\ last.op = "loan_withdraw"
    /\ last.result = "success"
    /\ today > 0
    /\ \E i \in WithdrawalsOf(withdrawals, last.app) :
            /\ withdrawals[i].status = "completed"
            /\ withdrawals[i].processed_date = <<today>>

\* Worker p has taken the step that leads from one save to the next.
Went(p, from, to) == inflight[p].pc = from /\ inflight'[p].pc = to

\* The earliest pending or overdue payment of an application, if any.
EarliestDue(pays, id, i) ==
    /\ i \in PaymentsOf(pays, id)
    /\ pays[i].status \in {"pending", "overdue"}
    /\ \A j \in PaymentsOf(pays, id) :
            pays[j].status \in {"pending", "overdue"}
            => pays[i].due_date <= pays[j].due_date

OthersUnchanged(pays, after, i) ==
    /\ Len(after) = Len(pays)
    /\ \A j \in 1 .. Len(pays) : j # i => after[j] = pays[j]

DisbursementTitle == "Loan Disbursement Successful!"

\* The withdrawal rows of the applications of a user.
WithdrawalsOfUser(user) ==
    {i \in 1 .. Len(withdrawals) : apps[withdrawals[i].loan_application].applicant = user}

\* C21: when two loan_withdraw requests for one approved application have
\* both passed the "already withdrawn" check before either saved, the save
\* of the second fails on the one-to-one constraint and changes nothing, so
\* an application never has more than one LoanWithdrawal row, and once the
\* requests have ended each user holds exactly one disbursement
\* notification per withdrawal row.
C21_SecondSaveFails ==
    /\ [](/\ \A id \in 1 .. Len(apps) :
                Cardinality(WithdrawalsOf(withdrawals, id)) <= 1
          /\ (\A p \in Procs : ~Busy(p))
                => \A u \in Users :
                      Sent(u, DisbursementTitle) = Cardinality(WithdrawalsOfUser(u)))
    /\ [][\A p \in Procs :
            (/\ inflight[p].pc = "withdraw_insert"
             /\ inflight'[p] # inflight[p]
             /\ WithdrawalsOf(withdrawals, inflight[p].app) # {})
            => /\ withdrawals' = withdrawals
               /\ notifications' = notifications
               /\ inflight'[p] = Idle
               /\ last' = Request("loan_withdraw", inflight[p].user,
                                  inflight[p].app, "integrity_error")]_vars

\* Both requests have ended: the first disbursed, the second failed on the
\* constraint, and one row and one notification exist.
C21_Witness ==
    /\ last.op = "loan_withdraw" /\ last.result = "integrity_error"
    /\ \A p \in Procs : ~Busy(p)
    /\ Cardinality(WithdrawalsOf(withdrawals, last.app)) = 1
    /\ \A i \in WithdrawalsOf(withdrawals, last.app) : withdrawals[i].status = "completed"
    /\ Sent(last.user, DisbursementTitle) = 1

\* C22: right after an approving save has generated the schedule, the
\* amounts of the scheduled installments of the application add up to its
\* total_repayment, so paying each of them at its scheduled amount would
\* leave a balance of exactly 0.
C22_ScheduleSumsToTotal ==
    (last.op = "admin_save" /\ apps[last.app].status = "approved")
    => LET scheduled == PaymentsOf(payments, last.app)
       IN  /\ Cardinality(scheduled) = apps[last.app].term_months
           /\ \A i \in scheduled : payments[i].status = "pending"
           /\ SumAmounts(payments, scheduled) = apps[last.app].total_repayment[1]

\* C23: make_payment creates or completes LoanPayment rows only for an
\* application whose status is approved when the request is made; for a
\* pending, under_review or rejected application, one that was approved
\* before included, the request leaves the payments as they are.
C23_PaymentOnlyWhenApproved ==
    [][(last'.op = "make_payment" /\ payments' # payments)
        => apps[last'.app].status = "approved"]_vars

====
